---- MODULE Spec2Model ----
(***************************************************************************)
(* State-machine model of streamlit_app.py: a Streamlit script that loads  *)
(* a CSV of yearly births/deaths by clinic through a memoised loader, lets *)
(* the user pick clinics and a year range, and renders two sidebar         *)
(* metrics, a table and three charts.  The script is re-run top to bottom  *)
(* on every interaction; one script run is one step of the model.          *)
(***************************************************************************)
EXTENDS Integers, Sequences, FiniteSets, TLC

VARIABLES
    disk,              \* content of the CSV resource at DATA_PATH
    cache,             \* st.cache_data store of load_data: set of [path, value]
    reads,             \* pd.read_csv executions that read the file since the last clear
    first,             \* results returned by the first successful load since the last clear
    status,            \* how the last script run ended
    df,                \* line 35
    clinics,           \* line 38
    year_min,          \* line 40
    year_max,          \* line 40
    selected_clinics,  \* line 39
    year_range,        \* line 41
    filtered,          \* lines 43-45
    sel_for_metrics,   \* line 55
    pre,               \* line 56
    post,              \* line 57
    pct_change,        \* lines 60-62
    divisors,          \* divisors of the division of line 62 executed in the last run
    metric_pre,        \* line 65
    metric_post,       \* lines 66-70
    table,             \* line 73
    charts,            \* lines 79-129
    loaded,            \* what the call of load_data at line 35 returned in the last run
    bound,             \* names the last run bound or rendered before it ended
    snap               \* criteria and outputs of one remembered earlier run

vars == <<disk, cache, reads, first, status, df, clinics, year_min, year_max,
          selected_clinics, year_range, filtered, sel_for_metrics, pre, post,
          pct_change, divisors, metric_pre, metric_post, table, charts, loaded,
          bound, snap>>

(***************************************************************************)
(* Program constants.                                                      *)
(***************************************************************************)
DATA_PATH == "data/yearly_deaths_by_clinic-1.csv"

HANDWASH_YEAR == 1847

(***************************************************************************)
(* Bounds of the model.                                                    *)
(***************************************************************************)
\* longest CSV body (rows) drawn for the initial file
MaxRows == 3

\* longest CSV body drawn from the rows with empty or malformed cells
MaxDirtyRows == 2

\* the counter of file reads stops counting here
MaxReads == 2

(***************************************************************************)
(* CSV cells.  A raw cell is a parsable integer, an empty cell or a        *)
(* malformed one (text that is no number).                                 *)
(***************************************************************************)
IntCell(n) == [k |-> "int", v |-> n]

NaCell == [k |-> "na", v |-> 0]

BadCell == [k |-> "bad", v |-> 0]

\* a parsed numeric value: a number, or the missing-value marker NaN
Num(n) == [nan |-> FALSE, val |-> n]

NaN == [nan |-> TRUE, val |-> 0]

isna(x) == x.nan

\* a faulty variant of the coercion that stores zero for what it cannot parse
to_numeric_coerce_zero(cell) ==
    IF cell.k = "int" THEN Num(cell.v) ELSE Num(0)

\* pd.to_numeric(column, errors="coerce"), one cell
to_numeric_coerce(cell) ==
    IF cell.k = "int" THEN Num(cell.v) ELSE NaN

\* Series.astype(int) succeeds only when every cell of the column is an
\* integer: a NaN (empty cell) or a string that is no integer raises.
astype_int_ok(rows) ==
    \A i \in 1..Len(rows) : rows[i].Year.k = "int"

(***************************************************************************)
(* The file.                                                               *)
(***************************************************************************)
Missing == [exists |-> FALSE, readable |-> FALSE, rows |-> <<>>]

\* the resource exists and cannot be opened or parsed as delimited text
Unreadable == [exists |-> TRUE, readable |-> FALSE, rows |-> <<>>]

File(rows) == [exists |-> TRUE, readable |-> TRUE, rows |-> rows]

RawRow(y, c, b, d) == [Year |-> y, Clinic |-> c, Birth |-> b, Deaths |-> d]

\* pd.read_csv(path): the rows of the resource, or an exception
\* (FileNotFoundError, PermissionError, a parser error)
read_csv(path) ==
    IF path = DATA_PATH /\ disk.exists /\ disk.readable
    THEN [raised |-> FALSE, rows |-> disk.rows]
    ELSE [raised |-> TRUE, rows |-> <<>>]

\* a faulty variant of load_data that swallows the failure and returns what it has
load_data_partial(path) ==
    LET r == read_csv(path)
        good == SelectSeq(r.rows, LAMBDA row : row.Year.k = "int")
    IN  [raised |-> FALSE,
         read   |-> ~r.raised,
         value  |-> [i \in 1..Len(good) |->
                        [Year   |-> good[i].Year.v,
                         Clinic |-> good[i].Clinic,
                         Birth  |-> to_numeric_coerce(good[i].Birth),
                         Deaths |-> to_numeric_coerce(good[i].Deaths)]]]

\* load_data(path), the undecorated body (lines 26-32)
load_data(path) ==
    LET r == read_csv(path)
    IN  IF r.raised
        THEN [raised |-> TRUE, read |-> FALSE, value |-> <<>>]
        ELSE IF ~astype_int_ok(r.rows)
        THEN [raised |-> TRUE, read |-> TRUE, value |-> <<>>]
        ELSE [raised |-> FALSE,
              read   |-> TRUE,
              value  |-> [i \in 1..Len(r.rows) |->
                            [Year   |-> r.rows[i].Year.v,
                             Clinic |-> r.rows[i].Clinic,
                             Birth  |-> to_numeric_coerce(r.rows[i].Birth),
                             Deaths |-> to_numeric_coerce(r.rows[i].Deaths)]]]

CacheHit(path) == \E e \in cache : e.path = path

CacheValue(path) == (CHOOSE e \in cache : e.path = path).value

\* a faulty variant of the memoisation that never serves from the store
cache_data_load_data_nomemo(path) ==
    LET r == load_data(path)
    IN  [raised |-> r.raised, read |-> r.read, value |-> r.value,
         store  |-> IF r.raised THEN cache
                    ELSE {e \in cache : e.path # path}
                            \cup {[path |-> path, value |-> r.value]}]

\* @st.cache_data applied to load_data (line 25): a hit returns the stored
\* value without running the body; a miss runs the body and stores its
\* result; an exception is propagated and nothing is stored.
cache_data_load_data(path) ==
    IF CacheHit(path)
    THEN [raised |-> FALSE, read |-> FALSE, value |-> CacheValue(path),
          store |-> cache]
    ELSE LET r == load_data(path)
         IN  [raised |-> r.raised, read |-> r.read, value |-> r.value,
              store  |-> IF r.raised THEN cache
                         ELSE cache \cup {[path |-> path, value |-> r.value]}]

(***************************************************************************)
(* Controls (lines 37-41).                                                 *)
(***************************************************************************)
Min(S) == CHOOSE x \in S : \A y \in S : x <= y

Max(S) == CHOOSE x \in S : \A y \in S : x >= y

\* df["Clinic"].unique(), as the set of the labels that occur
unique_clinics(d) == {d[i].Clinic : i \in 1..Len(d)}

RECURSIVE sorted(_)
\* sorted(iterable): the ascending list of the elements
sorted(S) ==
    IF S = {} THEN <<>> ELSE <<Min(S)>> \o sorted(S \ {Min(S)})

years_of(d) == {d[i].Year : i \in 1..Len(d)}

\* the values the multiselect can return: any selection of its options
\* (the order of the selection is dropped: the script only tests membership)
multiselect_values(options) == SUBSET {options[i] : i \in 1..Len(options)}

\* the values the range slider can return: (lo, hi) inside [min, max]
slider_values(lo, hi) ==
    {yr \in (lo..hi) \X (lo..hi) : yr[1] <= yr[2]}

(***************************************************************************)
(* Filter (lines 43-45 and line 55).  A row of a filtered frame keeps the  *)
(* index label it had in df (its position there).                          *)
(***************************************************************************)
\* a faulty variant of isin in which the previous run's selection leaks into this one
isin_stale(d, sel) ==
    [i \in 1..Len(d) |-> d[i].Clinic \in (sel \cup selected_clinics)]

\* df["Clinic"].isin(selected_clinics)
isin(d, sel) ==
    [i \in 1..Len(d) |-> d[i].Clinic \in sel]

\* df["Year"].between(left, right), inclusive on both sides
between(d, left, right) ==
    [i \in 1..Len(d) |-> left <= d[i].Year /\ d[i].Year <= right]

\* mask1 & mask2
mask_and(m1, m2) ==
    [i \in 1..Len(m1) |-> m1[i] /\ m2[i]]

RECURSIVE boolean_index(_, _, _)
\* boolean-mask indexing of the first n rows of d: the rows whose mask is
\* True, in d's order, each with its index label
boolean_index(d, mask, n) ==
    IF n = 0 THEN <<>>
    ELSE LET rest == boolean_index(d, mask, n - 1)
         IN  IF mask[n] THEN Append(rest, [idx |-> n, row |-> d[n]]) ELSE rest

\* a faulty variant of the table filter with an exclusive upper end of the year range
filtered_of_exclusive(d, sel, yr) ==
    boolean_index(d,
        mask_and(isin(d, sel), [i \in 1..Len(d) |-> yr[1] <= d[i].Year /\ d[i].Year < yr[2]]),
        Len(d))

\* filtered = df.loc[isin & between]   (lines 43-45)
filtered_of(d, sel, yr) ==
    boolean_index(d, mask_and(isin(d, sel), between(d, yr[1], yr[2])), Len(d))

\* a faulty variant of the metrics filter that forgets the year range
sel_for_metrics_of_noyears(d, sel, yr) ==
    boolean_index(d, isin(d, sel), Len(d))

\* sel_for_metrics = df[isin & between]   (line 55)
sel_for_metrics_of(d, sel, yr) ==
    boolean_index(d, mask_and(isin(d, sel), between(d, yr[1], yr[2])), Len(d))

(***************************************************************************)
(* Floating-point values, kept as exact fractions num/den in lowest terms  *)
(* (den > 0), NaN, or an infinity (den = 0).                               *)
(***************************************************************************)
Abs(n) == IF n < 0 THEN -n ELSE n

RECURSIVE GCD(_, _)
GCD(a, b) == IF b = 0 THEN a ELSE GCD(b, a % b)

FNaN == [nan |-> TRUE, num |-> 0, den |-> 1]

Frac(n, d) ==
    LET g == GCD(Abs(n), Abs(d))
        s == IF d < 0 THEN -1 ELSE 1
    IN  [nan |-> FALSE, num |-> s * (n \div g), den |-> s * (d \div g)]

FInf(sign) == [nan |-> FALSE, num |-> sign, den |-> 0]

\* a - b
FSub(a, b) ==
    IF a.nan \/ b.nan THEN FNaN
    ELSE Frac(a.num * b.den - b.num * a.den, a.den * b.den)

\* a / b on numpy.float64: x/0 is an infinity, 0/0 is NaN
FDiv(a, b) ==
    IF a.nan \/ b.nan THEN FNaN
    ELSE IF b.num = 0
    THEN (IF a.num = 0 THEN FNaN ELSE FInf(IF a.num < 0 THEN -1 ELSE 1))
    ELSE Frac(a.num * b.den, a.den * b.num)

\* a * k for an integer k
FMul(a, k) ==
    IF a.nan THEN FNaN
    ELSE IF a.den = 0 THEN (IF k = 0 THEN FNaN ELSE FInf(IF k < 0 THEN -a.num ELSE a.num))
    ELSE Frac(a.num * k, a.den)

(***************************************************************************)
(* Metrics (lines 55-62).                                                  *)
(***************************************************************************)
\* frame[frame["Year"] < year]
year_lt(f, year) == SelectSeq(f, LAMBDA r : r.row.Year < year)

\* frame[frame["Year"] >= year]
year_ge(f, year) == SelectSeq(f, LAMBDA r : r.row.Year >= year)

\* frame["Deaths"]
deaths(f) == [i \in 1..Len(f) |-> f[i].row.Deaths]

RECURSIVE sum_skipna(_, _)
sum_skipna(s, n) ==
    IF n = 0 THEN 0
    ELSE sum_skipna(s, n - 1) + (IF isna(s[n]) THEN 0 ELSE s[n].val)

RECURSIVE count_skipna(_, _)
count_skipna(s, n) ==
    IF n = 0 THEN 0
    ELSE count_skipna(s, n - 1) + (IF isna(s[n]) THEN 0 ELSE 1)

\* a faulty variant of mean in which an empty group averages to zero
mean_zero_when_empty(s) ==
    LET c == count_skipna(s, Len(s))
    IN  IF c = 0 THEN Frac(0, 1) ELSE Frac(sum_skipna(s, Len(s)), c)

\* Series.mean(): the mean of the values present (skipna=True); NaN when
\* there is none
mean(s) ==
    LET c == count_skipna(s, Len(s))
    IN  IF c = 0 THEN FNaN ELSE Frac(sum_skipna(s, Len(s)), c)

NoPct == [none |-> TRUE, v |-> FNaN]

\* a faulty variant of the guard of line 61 that forgets to test post
pct_change_of_nopost(p, q) ==
    IF (~p.nan) /\ (p.num # 0)
    THEN [none |-> FALSE, v |-> FMul(FDiv(FSub(q, p), p), 100), divided_by |-> {p}]
    ELSE [none |-> TRUE, v |-> FNaN, divided_by |-> {}]

\* lines 60-62: pct_change (None, or the float) and the divisors the
\* division of line 62 was run with
pct_change_of(p, q) ==
    IF (~p.nan) /\ (p.num # 0) /\ (~q.nan)
    THEN [none |-> FALSE, v |-> FMul(FDiv(FSub(q, p), p), 100), divided_by |-> {p}]
    ELSE [none |-> TRUE, v |-> FNaN, divided_by |-> {}]

(***************************************************************************)
(* Text of the sidebar metrics (lines 64-70).  A formatted number is kept  *)
(* as its sign and its digits in tenths.                                   *)
(***************************************************************************)
NA_TEXT == [kind |-> "N/A", neg |-> FALSE, tenths |-> 0, plus |-> FALSE, suffix |-> ""]

NO_DELTA == [kind |-> "none", neg |-> FALSE, tenths |-> 0, plus |-> FALSE, suffix |-> ""]

\* |x| rounded to one decimal, in tenths, computed on the exact fraction;
\* a tie goes to the even digit, as it does for a float that holds the tie
\* exactly (every multiple of 1/4 does)
round_tenths(x) ==
    LET n == 10 * Abs(x.num)
        q == n \div x.den
        r == n - q * x.den
    IN  IF 2 * r < x.den THEN q
        ELSE IF 2 * r > x.den THEN q + 1
        ELSE IF q % 2 = 0 THEN q ELSE q + 1

\* format(x, spec) for the specs ".1f" and "+.1f", followed by a suffix
format_1f(x, plus, suffix) ==
    IF x.nan
    THEN [kind |-> "nan", neg |-> FALSE, tenths |-> 0, plus |-> plus, suffix |-> suffix]
    ELSE IF x.den = 0
    THEN [kind |-> "inf", neg |-> x.num < 0, tenths |-> 0, plus |-> plus, suffix |-> suffix]
    ELSE [kind |-> "number", neg |-> x.num < 0, tenths |-> round_tenths(x),
          plus |-> plus, suffix |-> suffix]

\* a faulty variant of the value of a metric that formats without testing for NaN
metric_value_text_unchecked(x) == format_1f(x, FALSE, "")

\* f"{x:.1f}" if not pd.isna(x) else "N/A"   (lines 65 and 67)
metric_value_text(x) ==
    IF ~x.nan THEN format_1f(x, FALSE, "") ELSE NA_TEXT

\* st.sidebar.metric(label, value, delta=None): the element it adds
metric(label, value, delta) ==
    [label |-> label, value |-> value, delta |-> delta]

\* line 65
metric_pre_of(p) ==
    metric("Avg deaths (before 1847)", metric_value_text(p), NO_DELTA)

\* lines 66-70
metric_post_of(q, pct) ==
    IF pct.none
    THEN metric("Avg deaths (from 1847)", metric_value_text(q), NO_DELTA)
    ELSE metric("Avg deaths (from 1847)", format_1f(q, FALSE, ""),
                format_1f(pct.v, TRUE, "%"))

(***************************************************************************)
(* Table and charts (lines 72-129).                                        *)
(***************************************************************************)
\* frame.reset_index(drop=True): a new frame with the rows renumbered from
\* the start, the old labels dropped
reset_index_drop(f) == [i \in 1..Len(f) |-> f[i].row]

\* the records a chart's data holds (the index is not a column)
chart_data(f) == [i \in 1..Len(f) |-> f[i].row]

\* lines 79-99
line_chart(f) ==
    [layers |-> <<"line", "rule", "text">>,
     data |-> chart_data(f),
     point |-> TRUE,
     x |-> "Year:O", y |-> "Deaths:Q", color |-> "Clinic:N",
     tooltip |-> <<"Year", "Clinic", "Birth", "Deaths">>,
     height |-> 400, width |-> 700,
     rule_year |-> HANDWASH_YEAR,
     rule_label |-> [text |-> "Hand-washing: ", year |-> HANDWASH_YEAR]]

\* lines 101-114
bar_chart(f) ==
    [mark |-> "bar",
     data |-> chart_data(f),
     x |-> "Year:O", y |-> "Deaths:Q", color |-> "Clinic:N", column |-> "Clinic:N",
     tooltip |-> <<"Year", "Clinic", "Deaths">>,
     height |-> 300]

\* lines 116-129
scatter_chart(f) ==
    [mark |-> "circle",
     data |-> chart_data(f),
     x |-> "Birth:Q", y |-> "Deaths:Q", size |-> "Birth:Q", size_range |-> <<30, 400>>,
     color |-> "Clinic:N",
     tooltip |-> <<"Year", "Clinic", "Birth", "Deaths">>,
     height |-> 400]

\* the three st.altair_chart calls, in page order
charts_of(f) == <<line_chart(f), bar_chart(f), scatter_chart(f)>>

(***************************************************************************)
(* What the rest of the script does to the frame it was given.             *)
(***************************************************************************)
\* a faulty variant of the script body that fills the missing Deaths in place
df_after_render_fillna(d) ==
    [i \in 1..Len(d) |->
        [d[i] EXCEPT !.Deaths = IF isna(d[i].Deaths) THEN Num(0) ELSE d[i].Deaths]]

\* df after lines 37-129: every use of df there (unique, min, max, isin,
\* between, boolean indexing) returns a new object and assigns nothing to df
df_after_render(d) == d

(***************************************************************************)
(* Files the model draws.  Clinic labels are numbered: 1 is "clinic 1".    *)
(***************************************************************************)
CleanRows ==
    {RawRow(IntCell(y), 1, IntCell(10), d) :
        y \in {1846, 1847}, d \in {IntCell(0), IntCell(3), NaCell}}
    \cup {RawRow(IntCell(y), 2, IntCell(10), IntCell(3)) : y \in {1846, 1847}}

DirtyRows ==
    {RawRow(y, 1, b, d) :
        y \in {IntCell(1847), NaCell, BadCell},
        b \in {IntCell(10), NaCell, BadCell},
        d \in {IntCell(3), NaCell, BadCell}}

SeqsUpTo(S, n) == UNION {[1..k -> S] : k \in 0..n}

\* the dataset of the specification's worked example
ExampleFile ==
    File(<<RawRow(IntCell(1841), 1, IntCell(254), IntCell(7)),
           RawRow(IntCell(1846), 1, IntCell(4010), IntCell(459)),
           RawRow(IntCell(1847), 1, IntCell(3754), IntCell(105)),
           RawRow(IntCell(1848), 1, IntCell(3073), IntCell(47))>>)

Files ==
    {File(rows) : rows \in SeqsUpTo(CleanRows, MaxRows) \cup SeqsUpTo(DirtyRows, MaxDirtyRows)}
        \cup {Missing, Unreadable, ExampleFile}

\* the files of the session specification
SessionFiles ==
    {Missing,
     Unreadable,
     File(<<>>),
     File(<<RawRow(BadCell, 1, IntCell(10), IntCell(3))>>),
     File(<<RawRow(IntCell(1847), 1, IntCell(10), IntCell(3)),
            RawRow(IntCell(1847), 2, BadCell, NaCell)>>),
     File(<<RawRow(IntCell(1846), 1, IntCell(10), IntCell(0)),
            RawRow(IntCell(1847), 1, IntCell(10), IntCell(3))>>)}

(***************************************************************************)
(* Initial states: the process has started and no script run has happened. *)
(***************************************************************************)
NO_SNAP ==
    [has |-> FALSE, df |-> <<>>, sel |-> {}, yr |-> <<0, 0>>, out |-> <<>>,
     others |-> FALSE]

InitScript ==
    /\ cache = {}
    /\ reads = 0
    /\ first = {}
    /\ status = "idle"
    /\ df = <<>>
    /\ clinics = <<>>
    /\ year_min = 0
    /\ year_max = 0
    /\ selected_clinics = {}
    /\ year_range = <<0, 0>>
    /\ filtered = <<>>
    /\ sel_for_metrics = <<>>
    /\ pre = FNaN
    /\ post = FNaN
    /\ pct_change = NoPct
    /\ divisors = {}
    /\ metric_pre = metric("", NA_TEXT, NO_DELTA)
    /\ metric_post = metric("", NA_TEXT, NO_DELTA)
    /\ table = <<>>
    /\ charts = <<>>
    /\ loaded = <<>>
    /\ bound = {}
    /\ snap = NO_SNAP

Init == disk \in SessionFiles /\ InitScript

InitRender == disk \in Files /\ InitScript

(***************************************************************************)
(* One script run.                                                         *)
(***************************************************************************)
Outputs ==
    <<filtered, sel_for_metrics, pre, post, pct_change, metric_pre, metric_post,
      table, charts>>

\* the script's names after line 35 raised: nothing is bound, nothing of
\* lines 37-132 is rendered
Halted ==
    /\ status' = "load_error"
    /\ df' = <<>>
    /\ loaded' = <<>>
    /\ clinics' = <<>>
    /\ selected_clinics' = {}
    /\ year_min' = 0
    /\ year_max' = 0
    /\ year_range' = <<0, 0>>
    /\ filtered' = <<>>
    /\ sel_for_metrics' = <<>>
    /\ pre' = FNaN
    /\ post' = FNaN
    /\ pct_change' = NoPct
    /\ divisors' = {}
    /\ metric_pre' = metric("", NA_TEXT, NO_DELTA)
    /\ metric_post' = metric("", NA_TEXT, NO_DELTA)
    /\ table' = <<>>
    /\ charts' = <<>>
    /\ bound' = {}

\* the dataset has no row: line 38 gives no option, line 39 an empty
\* selection, and int(df["Year"].min()) at line 40 raises on NaN
NoYears(d) ==
    /\ status' = "controls_error"
    /\ loaded' = d
    /\ df' = d
    /\ clinics' = sorted(unique_clinics(d))
    /\ selected_clinics' = {}
    /\ year_min' = 0
    /\ year_max' = 0
    /\ year_range' = <<0, 0>>
    /\ filtered' = <<>>
    /\ sel_for_metrics' = <<>>
    /\ pre' = FNaN
    /\ post' = FNaN
    /\ pct_change' = NoPct
    /\ divisors' = {}
    /\ metric_pre' = metric("", NA_TEXT, NO_DELTA)
    /\ metric_post' = metric("", NA_TEXT, NO_DELTA)
    /\ table' = <<>>
    /\ charts' = <<>>
    /\ bound' = {"df", "clinics", "selected_clinics"}

\* lines 37-132 with the widgets returning sel and yr
Render(d, sel, yr) ==
    /\ status' = "ok"
    /\ loaded' = d
    /\ df' = df_after_render(d)
    /\ clinics' = sorted(unique_clinics(d))
    /\ selected_clinics' = sel
    /\ year_min' = Min(years_of(d))
    /\ year_max' = Max(years_of(d))
    /\ year_range' = yr
    /\ filtered' = filtered_of(d, sel, yr)
    /\ sel_for_metrics' = sel_for_metrics_of(d, sel, yr)
    /\ pre' = mean(deaths(year_lt(sel_for_metrics', HANDWASH_YEAR)))
    /\ post' = mean(deaths(year_ge(sel_for_metrics', HANDWASH_YEAR)))
    /\ LET r == pct_change_of(pre', post')
       IN  /\ pct_change' = [none |-> r.none, v |-> r.v]
           /\ divisors' = r.divided_by
    /\ metric_pre' = metric_pre_of(pre')
    /\ metric_post' = metric_post_of(post', pct_change')
    /\ table' = reset_index_drop(filtered')
    /\ charts' = charts_of(filtered')
    /\ bound' = {"df", "clinics", "selected_clinics", "year_range", "filtered",
                 "metrics", "table", "charts"}

\* A script run (lines 1-132), started by the first page load or by an
\* interaction.  The widgets return whatever the user has selected: any
\* selection of the options and any range inside [year_min, year_max], the
\* defaults (all clinics, the full range) among them.  keep says whether
\* this run is the one remembered in snap.
Rerun(keep) ==
    LET l == cache_data_load_data(DATA_PATH)
    IN  /\ disk' = disk
        /\ cache' = l.store
        /\ reads' = IF l.read /\ reads < MaxReads THEN reads + 1 ELSE reads
        /\ first' = IF (~l.raised) /\ first = {} THEN {l.value} ELSE first
        /\ \/ l.raised /\ Halted
           \/ (~l.raised) /\ Len(l.value) = 0 /\ NoYears(l.value)
           \/ /\ ~l.raised
              /\ Len(l.value) > 0
              /\ \E sel \in multiselect_values(sorted(unique_clinics(l.value))) :
                 \E yr \in slider_values(Min(years_of(l.value)), Max(years_of(l.value))) :
                    Render(l.value, sel, yr)
        /\ snap' = IF keep /\ status' = "ok"
                   THEN [has |-> TRUE, df |-> loaded', sel |-> selected_clinics',
                         yr |-> year_range', out |-> Outputs', others |-> FALSE]
                   ELSE IF snap.has /\ status' = "ok"
                           /\ <<selected_clinics', year_range'>> # <<snap.sel, snap.yr>>
                   THEN [snap EXCEPT !.others = TRUE]
                   ELSE snap

\* the cache is cleared (st.cache_data.clear(), the "Clear cache" menu)
ClearCache ==
    /\ cache # {}
    /\ cache' = {}
    /\ reads' = 0
    /\ first' = {}
    /\ UNCHANGED <<disk, status, df, clinics, year_min, year_max, selected_clinics,
                   year_range, filtered, sel_for_metrics, pre, post, pct_change,
                   divisors, metric_pre, metric_post, table, charts, loaded, bound,
                   snap>>

\* the resource at DATA_PATH is replaced or removed behind the process
Rewrite ==
    /\ \E f \in SessionFiles : f # disk /\ disk' = f
    /\ UNCHANGED <<cache, reads, first, status, df, clinics, year_min, year_max,
                   selected_clinics, year_range, filtered, sel_for_metrics, pre, post,
                   pct_change, divisors, metric_pre, metric_post, table, charts,
                   loaded, bound, snap>>

Next == (\E keep \in BOOLEAN : Rerun(keep)) \/ ClearCache \/ Rewrite

Spec == Init /\ [][Next]_vars

NextRender == Rerun(FALSE)

SpecRender == InitRender /\ [][NextRender]_vars

(***************************************************************************)
(* Properties.                                                             *)
(***************************************************************************)
\* the rows of d that match the criteria, by index label
Matching(d, sel, yr) ==
    {i \in 1..Len(d) : d[i].Clinic \in sel /\ yr[1] <= d[i].Year /\ d[i].Year <= yr[2]}

\* C1: after a completed run the table is exactly the dataset's records
\* whose Clinic is selected and whose Year lies in the inclusive range, once
\* each and in the dataset's order; an empty selection gives an empty table.
C1_FilterExact ==
    status = "ok" =>
        LET M == Matching(df, selected_clinics, year_range)
        IN  /\ Len(filtered) = Cardinality(M)
            /\ \A k \in 1..Len(filtered) :
                  /\ filtered[k].idx \in M
                  /\ filtered[k].row = df[filtered[k].idx]
            /\ \A j, k \in 1..Len(filtered) :
                  j < k => filtered[j].idx < filtered[k].idx
            /\ Len(table) = Len(filtered)
            /\ \A k \in 1..Len(table) : table[k] = df[filtered[k].idx]
            /\ (selected_clinics = {} => table = <<>>)

\* C1 witness: a run that kept two records and dropped another
C1_Witness ==
    /\ status = "ok"
    /\ Len(table) >= 2
    /\ Len(table) < Len(df)

\* C10: the rows the metrics are computed from are the rows of the table
\* and charts, record for record, label for label, in the same order.
C10_SameRows ==
    status = "ok" => sel_for_metrics = filtered

\* C10 witness: a run in which the year range alone excludes a record of a
\* selected clinic
C10_Witness ==
    /\ status = "ok"
    /\ Len(filtered) >= 1
    /\ \E i \in 1..Len(df) :
          /\ df[i].Clinic \in selected_clinics
          /\ (df[i].Year < year_range[1] \/ df[i].Year > year_range[2])

\* the records of frame f on one side of the threshold year
PreGroup(f) == {k \in 1..Len(f) : f[k].row.Year < HANDWASH_YEAR}

PostGroup(f) == {k \in 1..Len(f) : f[k].row.Year >= HANDWASH_YEAR}

Present(f, G) == {k \in G : ~f[k].row.Deaths.nan}

RECURSIVE DeathsTotal(_, _)
DeathsTotal(f, S) ==
    IF S = {} THEN 0
    ELSE LET k == CHOOSE x \in S : TRUE
         IN  f[k].row.Deaths.val + DeathsTotal(f, S \ {k})

\* m is the arithmetic mean of the Deaths present in group G of frame f,
\* and the missing-value marker when the group has none
IsMeanOf(m, f, G) ==
    LET P == Present(f, G)
    IN  /\ (P = {}) = m.nan
        /\ (P # {} => /\ m.den > 0
                      /\ m.num * Cardinality(P) = m.den * DeathsTotal(f, P))

ExampleFrame ==
    <<[Year |-> 1841, Clinic |-> 1, Birth |-> Num(254), Deaths |-> Num(7)],
      [Year |-> 1846, Clinic |-> 1, Birth |-> Num(4010), Deaths |-> Num(459)],
      [Year |-> 1847, Clinic |-> 1, Birth |-> Num(3754), Deaths |-> Num(105)],
      [Year |-> 1848, Clinic |-> 1, Birth |-> Num(3073), Deaths |-> Num(47)]>>

\* C3: pre is the mean of Deaths over the table's records before 1847 and
\* post the mean over those from 1847 on (over the Deaths that are present);
\* a group with no record averages to the missing-value marker, not zero;
\* the worked example gives 233.0 and 76.0.
C3_Means ==
    status = "ok" =>
        /\ IsMeanOf(pre, filtered, PreGroup(filtered))
        /\ IsMeanOf(post, filtered, PostGroup(filtered))
        /\ (PreGroup(filtered) = {} => pre.nan /\ pre # [nan |-> FALSE, num |-> 0, den |-> 1])
        /\ (PostGroup(filtered) = {} => post.nan /\ post # [nan |-> FALSE, num |-> 0, den |-> 1])
        /\ (table = ExampleFrame =>
               /\ pre = [nan |-> FALSE, num |-> 233, den |-> 1]
               /\ post = [nan |-> FALSE, num |-> 76, den |-> 1])

\* C3 witness: the worked example, whole
C3_Witness ==
    /\ status = "ok"
    /\ table = ExampleFrame
    /\ Cardinality(PreGroup(filtered)) = 2

\* C4: pct_change is defined exactly when pre is present and non-zero and
\* post is present, and is then (post - pre) / pre * 100; otherwise it is
\* undefined and line 62 divided by nothing.
C4_PctChange ==
    status = "ok" =>
        /\ pct_change.none = ~((~pre.nan) /\ pre.num # 0 /\ (~post.nan))
        /\ (~pct_change.none =>
               /\ ~pct_change.v.nan
               /\ pct_change.v.den > 0
               /\ pct_change.v.num * pre.num * post.den
                    = 100 * (post.num * pre.den - pre.num * post.den) * pct_change.v.den
               /\ divisors = {pre})
        /\ (pct_change.none => divisors = {} /\ pct_change.v.nan)
        /\ (Present(filtered, PreGroup(filtered)) = {} => pct_change.none)
        /\ (Present(filtered, PostGroup(filtered)) = {} => pct_change.none)
        /\ \A d \in divisors : (~d.nan) /\ d.num # 0

\* C4 witness: a run with a percent change that is defined and not zero
C4_Witness ==
    /\ status = "ok"
    /\ ~pct_change.none
    /\ pct_change.v.num < 0

\* C5: a run over a dataset with rows completes; a metric whose value is
\* undefined shows "N/A" and a defined one shows a number; the post metric
\* carries a delta exactly when pct_change is defined, and then shows a
\* number.
C5_Display ==
    ("df" \in bound /\ Len(loaded) > 0) =>
        /\ status = "ok"
        /\ "metrics" \in bound
        /\ (pre.nan => metric_pre.value = NA_TEXT)
        /\ (~pre.nan => metric_pre.value.kind = "number")
        /\ (post.nan => metric_post.value = NA_TEXT)
        /\ (~post.nan => metric_post.value.kind = "number")
        /\ metric_pre.delta = NO_DELTA
        /\ (metric_post.delta # NO_DELTA) = (~pct_change.none)
        /\ (metric_post.delta # NO_DELTA =>
               /\ metric_post.value.kind = "number"
               /\ metric_post.delta.kind = "number")

\* C5 witness: a run with an undefined pre and a defined post
C5_Witness ==
    /\ status = "ok"
    /\ pre.nan
    /\ ~post.nan
    /\ selected_clinics # {}

\* a raw cell and the value load_data stored for it
CellKept(cell, x) ==
    IF cell.k = "int" THEN x = [nan |-> FALSE, val |-> cell.v]
    ELSE x = [nan |-> TRUE, val |-> 0]

YearCellsFine(rows) == \A i \in 1..Len(rows) : rows[i].Year.k = "int"

\* row for row, the frame holds what the file holds
RowsKept(rows, frame) ==
    /\ Len(frame) = Len(rows)
    /\ \A i \in 1..Len(rows) :
          /\ rows[i].Year.k = "int"
          /\ frame[i].Year = rows[i].Year.v
          /\ frame[i].Clinic = rows[i].Clinic
          /\ CellKept(rows[i].Birth, frame[i].Birth)
          /\ CellKept(rows[i].Deaths, frame[i].Deaths)

\* C6 as stated: whatever numeric cell of a readable file is empty or
\* malformed, Year included, the load succeeds and keeps every row.  (The
\* file never changes under SpecRender, so disk is the file that was read.)
C6_Original ==
    (status # "idle" /\ disk.exists /\ disk.readable) =>
        /\ status # "load_error"
        /\ Len(loaded) = Len(disk.rows)
        /\ \A i \in 1..Len(loaded) :
              /\ CellKept(disk.rows[i].Birth, loaded[i].Birth)
              /\ CellKept(disk.rows[i].Deaths, loaded[i].Deaths)

\* C6 amended: an empty or malformed Birth or Deaths cell becomes the
\* missing-value marker and its row is kept; an empty or malformed Year
\* cell makes load_data raise.
C6_BirthDeathsCoerced ==
    (status # "idle" /\ disk.exists /\ disk.readable) =>
        IF YearCellsFine(disk.rows)
        THEN status # "load_error" /\ RowsKept(disk.rows, loaded)
        ELSE status = "load_error"

\* C6 witness: a loaded two-row file with a malformed Birth and an empty
\* Deaths cell
C6_Witness ==
    /\ status = "ok"
    /\ Len(loaded) = 2
    /\ \E i \in 1..2 : disk.rows[i].Birth.k = "bad" /\ loaded[i].Birth.nan
    /\ \E i \in 1..2 : disk.rows[i].Deaths.k = "na" /\ loaded[i].Deaths.nan

\* a step that is a script run
IsRerun == \E keep \in BOOLEAN : Rerun(keep)

\* what a run that halted at line 35 leaves
NothingRendered ==
    /\ status = "load_error"
    /\ bound = {}
    /\ loaded = <<>>
    /\ df = <<>>
    /\ clinics = <<>>
    /\ filtered = <<>>
    /\ table = <<>>
    /\ charts = <<>>
    /\ metric_pre.value = NA_TEXT /\ metric_pre.label = ""
    /\ metric_post.value = NA_TEXT /\ metric_post.label = ""

\* C7 as stated: every run that starts while the resource is missing or
\* unreadable halts with nothing produced, cached or rendered.
C7_Original ==
    [][(IsRerun /\ (~disk.exists \/ ~disk.readable))
          => (NothingRendered' /\ cache' = {})]_vars

\* C7 amended: every run that starts while the resource is missing or
\* unreadable and the cache holds no dataset for the path halts with
\* nothing produced, cached or rendered.
C7_HaltsWhenUncached ==
    [][(IsRerun /\ (~disk.exists \/ ~disk.readable) /\ ~CacheHit(DATA_PATH))
          => (NothingRendered' /\ cache' = {} /\ reads' = reads)]_vars

\* C7 witness: a run halted on a missing resource
C7_Witness ==
    /\ NothingRendered
    /\ ~disk.exists
    /\ cache = {}
    /\ reads = 0

\* C2 as stated: between two clears the file is read at most once.
C2_Original ==
    reads <= 1

\* C2 amended: once load_data has returned a dataset the file is not read
\* again until the cache is cleared, and every later call returns the cached
\* value, the first call's result; a call that raised stored nothing, so
\* the next call reads the file again.
C2_MemoisedAfterSuccess ==
    /\ [](CacheHit(DATA_PATH) =>
             /\ first = {CacheValue(DATA_PATH)}
             /\ ("df" \in bound => loaded = CacheValue(DATA_PATH)))
    /\ [][(CacheHit(DATA_PATH) /\ CacheHit(DATA_PATH)')
             => (reads' = reads /\ first' = first /\ cache' = cache)]_vars

\* C2 witness: a dataset served from the cache after the file was removed
C2_Witness ==
    /\ status = "ok"
    /\ CacheHit(DATA_PATH)
    /\ ~disk.exists
    /\ reads = 1
    /\ snap.has /\ snap.others

\* every row of a filtered frame is the record of d with its label
RowsOf(f, d) ==
    \A k \in 1..Len(f) :
        f[k].idx \in 1..Len(d) /\ f[k].row = d[f[k].idx]

\* C8: after a run df is still the dataset load_data returned, the rows of
\* filtered and sel_for_metrics are records of it, and from run to run the
\* cached dataset keeps its value.
C8_DatasetUnchanged ==
    /\ []("df" \in bound =>
             /\ df = loaded
             /\ RowsOf(filtered, loaded)
             /\ RowsOf(sel_for_metrics, loaded)
             /\ \A k \in 1..Len(table) : table[k] = loaded[filtered[k].idx])
    /\ [][(CacheHit(DATA_PATH) /\ CacheHit(DATA_PATH)')
             => CacheValue(DATA_PATH)' = CacheValue(DATA_PATH)]_vars

\* C8 witness: after several runs, a dataset with a missing Deaths value,
\* part of it displayed
C8_Witness ==
    /\ status = "ok"
    /\ \E i \in 1..Len(df) : df[i].Deaths.nan
    /\ Len(filtered) >= 1
    /\ snap.has /\ snap.others

\* C9: a run with the dataset and the criteria of a remembered earlier run
\* produces that run's outputs, whatever was selected in between.
C9_SameCriteriaSameOutputs ==
    (/\ snap.has
     /\ status = "ok"
     /\ snap.df = loaded
     /\ snap.sel = selected_clinics
     /\ snap.yr = year_range) => snap.out = Outputs

\* C9 witness: the remembered criteria are back after a run with others
C9_Witness ==
    /\ snap.has
    /\ snap.others
    /\ status = "ok"
    /\ snap.df = loaded
    /\ snap.sel = selected_clinics
    /\ snap.yr = year_range
    /\ Len(filtered) >= 1

====
